---- MODULE Spec2Model ----
(***************************************************************************)
(* Model of common/writeThoughFile_freebsd.go (timestamp conversion, file  *)
(* information mapping, sized file creation) and of the CredCache of the   *)
(* same package (lock discipline around a stub backend).                   *)
(*                                                                         *)
(* Machine integers of the program are wider than the integers of the      *)
(* model checker, so an int64/uint64 is a sequence of four 16-bit limbs,   *)
(* least significant first, in two's complement, and a uint32 is a         *)
(* sequence of two limbs.  All arithmetic wraps at the width of its        *)
(* operands, as the Go operators do.                                       *)
(***************************************************************************)
EXTENDS Integers, Sequences, FiniteSets, TLC

VARIABLES
    tpc, tIn, tFt, tOut,                \* timestamp conversion calls
    st, info, infoErr,                  \* GetFileInformation
    fileExists, fileLen, fileOld,       \* the file at destinationPath
    lastWriter,                         \* caller of the last file-modifying step
    fpc, fsize, fcall, fhandle, fret,   \* CreateFileOfSizeWithWriteThroughOption calls
    cache, saved, cpc, cop, cres, cret  \* CredCache, what was saved, its callers

timeVars == <<tpc, tIn, tFt, tOut>>
infoVars == <<st, info, infoErr>>
fileVars == <<fileExists, fileLen, fileOld, lastWriter, fpc, fsize, fcall, fhandle, fret>>
credVars == <<cache, saved, cpc, cop, cres, cret>>
vars == <<timeVars, infoVars, fileVars, credVars>>

(***************************************************************************)
(* Bounds of the model.                                                    *)
(***************************************************************************)
MaxDelta == 120       \* nanosecond inputs lie within MaxDelta of 0, MinInt64, MaxInt64
EdgeDelta == 3        \* Filetime inputs lie within EdgeDelta ticks of each anchor
MaxSize == 2          \* largest fileSize argument and largest pre-existing length
NumGoroutines == 2    \* goroutines sharing one CredCache

(***************************************************************************)
(* Fixed-width integers as limb sequences.                                 *)
(***************************************************************************)
LimbBase == 65536

Limbs == 0..(LimbBase - 1)

RECURSIVE AddCarry(_, _, _)
\* a + b + c over Len(a) limbs, the carry out of the top limb dropped.
AddCarry(a, b, c) ==
    IF a = <<>> THEN <<>>
    ELSE LET s == Head(a) + Head(b) + c
         IN  <<s % LimbBase>> \o AddCarry(Tail(a), Tail(b), s \div LimbBase)

AddW(a, b) == AddCarry(a, b, 0)

NotW(a) == [i \in 1..Len(a) |-> (LimbBase - 1) - a[i]]

ZeroW(n) == [i \in 1..n |-> 0]

NegW(a) == AddCarry(NotW(a), ZeroW(Len(a)), 1)

SubW(a, b) == AddCarry(a, NotW(b), 1)

IsNegW(a) == a[Len(a)] >= LimbBase \div 2

RECURSIVE MulCarry(_, _, _)
\* a * m + c over Len(a) limbs for a small multiplier m, wrapping.
MulCarry(a, m, c) ==
    IF a = <<>> THEN <<>>
    ELSE LET p == Head(a) * m + c
         IN  <<p % LimbBase>> \o MulCarry(Tail(a), m, p \div LimbBase)

MulW(a, m) == MulCarry(a, m, 0)

RECURSIVE RemAbove(_, _, _)
\* remainder of the limbs above position i of the unsigned a, divided by d.
RemAbove(a, d, i) ==
    IF i = Len(a) THEN 0
    ELSE (RemAbove(a, d, i + 1) * LimbBase + a[i + 1]) % d

\* unsigned quotient a / d for a small divisor d (schoolbook long division).
QuoU(a, d) == [i \in 1..Len(a) |-> (RemAbove(a, d, i) * LimbBase + a[i]) \div d]

\* faulty variant: the quotient rounded toward minus infinity
QuoFloorMut(a, d) ==
    IF IsNegW(a)
    THEN NotW(QuoU(NotW(a), d))
    ELSE QuoU(a, d)

\* Go's int64 `/` by a positive constant: the quotient truncated toward zero.
QuoTrunc(a, d) ==
    IF IsNegW(a)
    THEN NegW(QuoU(NegW(a), d))
    ELSE QuoU(a, d)

\* int64(k) for an integer k of the model checker's range.
Int64(k) ==
    IF k >= 0
    THEN <<k % LimbBase, k \div LimbBase, 0, 0>>
    ELSE NegW(<<(-k) % LimbBase, (-k) \div LimbBase, 0, 0>>)

MaxInt64 == <<65535, 65535, 65535, 32767>>
MinInt64 == <<0, 0, 0, 32768>>

(***************************************************************************)
(* Timestamp conversion.                                                   *)
(***************************************************************************)
\* 116444736000000000 = 0x019DB1DED53E8000
TICKS_FROM_WINDOWS_EPOCH_TO_UNIX_EPOCH == <<32768, 54590, 45534, 413>>

Filetime == [LowDateTime : Seq(Limbs), HighDateTime : Seq(Limbs)]

\* int64(ft.HighDateTime)<<32 + int64(ft.LowDateTime)
FiletimeTicks(ft) == ft.LowDateTime \o ft.HighDateTime

\* faulty variant: the epoch offset is not subtracted
NanosecondsNoOffsetMut(ft) == MulW(FiletimeTicks(ft), 100)

Nanoseconds(ft) ==
    MulW(SubW(FiletimeTicks(ft), TICKS_FROM_WINDOWS_EPOCH_TO_UNIX_EPOCH), 100)

NsecToFiletime(nsec) ==
    LET ticks == AddW(QuoTrunc(nsec, 100), TICKS_FROM_WINDOWS_EPOCH_TO_UNIX_EPOCH)
    IN  [LowDateTime  |-> <<ticks[1], ticks[2]>>,
         HighDateTime |-> <<ticks[3], ticks[4]>>]

\* int64(ts.Sec)*1_000_000_000 + int64(ts.Nsec)
TimespecToFiletime(ts) ==
    NsecToFiletime(AddW(MulW(MulW(MulW(ts.Sec, 1000), 1000), 1000), ts.Nsec))

NoValue == <<>>

NsecInputs ==
    {Int64(k) : k \in (-MaxDelta)..MaxDelta}
        \cup {SubW(MaxInt64, Int64(k)) : k \in 0..MaxDelta}
        \cup {AddW(MinInt64, Int64(k)) : k \in 0..MaxDelta}

\* offset - 92233720368547758: the first tick whose nanoseconds fit an int64
FirstRepresentableTick == <<14418, 23133, 970, 86>>

TickAnchors ==
    {ZeroW(4), FirstRepresentableTick, TICKS_FROM_WINDOWS_EPOCH_TO_UNIX_EPOCH, MaxInt64}

FiletimeOfTicks(t) == [LowDateTime |-> <<t[1], t[2]>>, HighDateTime |-> <<t[3], t[4]>>]

FiletimeInputs ==
    {FiletimeOfTicks(AddW(a, Int64(k))) : a \in TickAnchors, k \in (-EdgeDelta)..EdgeDelta}

\* ft := NsecToFiletime(nsec)
CallNsecToFiletime(nsec) ==
    /\ tpc = "idle"
    /\ tIn' = nsec
    /\ tFt' = NsecToFiletime(nsec)
    /\ tOut' = NoValue
    /\ tpc' = "filetime"
    /\ UNCHANGED <<infoVars, fileVars, credVars>>

\* ft.Nanoseconds() on the Filetime the previous conversion returned
CallNanosecondsOfResult ==
    /\ tpc = "filetime"
    /\ tOut' = Nanoseconds(tFt)
    /\ tpc' = "roundtrip"
    /\ UNCHANGED <<tIn, tFt, infoVars, fileVars, credVars>>

\* ft.Nanoseconds() on a given Filetime
CallNanoseconds(ft) ==
    /\ tpc = "idle"
    /\ tIn' = NoValue
    /\ tFt' = ft
    /\ tOut' = Nanoseconds(ft)
    /\ tpc' = "nanos"
    /\ UNCHANGED <<infoVars, fileVars, credVars>>

TimeInit ==
    /\ tpc = "idle"
    /\ tIn = NoValue
    /\ tFt = NoValue
    /\ tOut = NoValue

(***************************************************************************)
(* GetFileInformation.                                                     *)
(***************************************************************************)
RECURSIVE BitAnd(_, _)
BitAnd(a, b) ==
    IF a = 0 \/ b = 0 THEN 0
    ELSE (a % 2) * (b % 2) + 2 * BitAnd(a \div 2, b \div 2)

RECURSIVE BitOr(_, _)
BitOr(a, b) ==
    IF a = 0 THEN b
    ELSE IF b = 0 THEN a
    ELSE (IF a % 2 = 1 \/ b % 2 = 1 THEN 1 ELSE 0) + 2 * BitOr(a \div 2, b \div 2)

S_IFMT == 61440
S_IFDIR == 16384
FILE_ATTRIBUTE_DIRECTORY == 16
FILE_ATTRIBUTE_NORMAL == 128

\* the file types a mode can carry: fifo, chr, dir, blk, reg, lnk, sock, whiteout
FileTypes == {4096, 8192, 16384, 24576, 32768, 40960, 49152, 57344}

\* permission bits, with and without setuid/setgid/sticky: 0, 0644, 0755, 07777
PermBits == {0, 420, 493, 4095}

Timespecs ==
    {[Sec |-> Int64(0), Nsec |-> Int64(0)],
     [Sec |-> Int64(1700000000), Nsec |-> Int64(999999999)],
     [Sec |-> Int64(-1), Nsec |-> Int64(50)]}

\* 0, 4096 and 2^32 + 5
FileSizes == {Int64(0), Int64(4096), <<5, 0, 1, 0>>}

\* 2 and 2^32 + 7
InodeNumbers == {Int64(2), <<7, 0, 1, 0>>}

\* 1 and 2^32 + 3
LinkCounts == {Int64(1), <<3, 0, 1, 0>>}

StatResults ==
    [Mode : {t + p : t \in FileTypes, p \in PermBits},
     Mtim : Timespecs, Atim : Timespecs,
     Size : FileSizes, Nlink : LinkCounts, Ino : InodeNumbers]

ZeroFiletime == [LowDateTime |-> <<0, 0>>, HighDateTime |-> <<0, 0>>]

\* ByHandleFileInformation{}
ZeroInfo ==
    [FileAttributes |-> 0,
     CreationTime |-> ZeroFiletime, LastAccessTime |-> ZeroFiletime,
     LastWriteTime |-> ZeroFiletime, VolumeSerialNumber |-> <<0, 0>>,
     FileSizeHigh |-> <<0, 0>>, FileSizeLow |-> <<0, 0>>,
     NumberOfLinks |-> <<0, 0>>,
     FileIndexHigh |-> <<0, 0>>, FileIndexLow |-> <<0, 0>>]

\* faulty variant: the mode is compared without masking the file type
FileAttributesNoMaskMut(s) ==
    IF s.Mode = S_IFDIR
    THEN BitOr(ZeroInfo.FileAttributes, FILE_ATTRIBUTE_DIRECTORY)
    ELSE FILE_ATTRIBUTE_NORMAL

\* the attribute mapping applied to the zero-valued info.FileAttributes
FileAttributesOf(s) ==
    IF BitAnd(s.Mode, S_IFMT) = S_IFDIR
    THEN BitOr(ZeroInfo.FileAttributes, FILE_ATTRIBUTE_DIRECTORY)
    ELSE FILE_ATTRIBUTE_NORMAL

\* the record GetFileInformation builds from a successful stat
FileInformation(s) ==
    [FileAttributes |-> FileAttributesOf(s),
     CreationTime |-> TimespecToFiletime(s.Mtim),
     LastAccessTime |-> TimespecToFiletime(s.Atim),
     LastWriteTime |-> TimespecToFiletime(s.Mtim),
     VolumeSerialNumber |-> <<0, 0>>,
     FileSizeHigh |-> <<s.Size[3], s.Size[4]>>,
     FileSizeLow |-> <<s.Size[1], s.Size[2]>>,
     NumberOfLinks |-> <<s.Nlink[1], s.Nlink[2]>>,
     FileIndexHigh |-> <<s.Ino[3], s.Ino[4]>>,
     FileIndexLow |-> <<s.Ino[1], s.Ino[2]>>]

\* GetFileInformation(path, isNFSCopy) when unix.Stat succeeds with s
GetFileInformation(s) ==
    /\ infoErr = "none"
    /\ st' = s
    /\ info' = FileInformation(s)
    /\ infoErr' = "nil"
    /\ UNCHANGED <<timeVars, fileVars, credVars>>

\* GetFileInformation(path, isNFSCopy) when unix.Stat fails
GetFileInformationStatFails ==
    /\ infoErr = "none"
    /\ st' = NoValue
    /\ info' = ZeroInfo
    /\ infoErr' = "stat failed"
    /\ UNCHANGED <<timeVars, fileVars, credVars>>

InfoInit ==
    /\ st = NoValue
    /\ info = ZeroInfo
    /\ infoErr = "none"

(***************************************************************************)
(* CreateFileOfSizeWithWriteThroughOption.  The file at destinationPath is *)
(* shared by all callers; each caller runs the function one system call at *)
(* a time.  fcall[p] holds what the current call of caller p has seen:     *)
(*   writeThrough  the argument                                            *)
(*   dirErr        what CreateParentDirectoryIfNotExist returned           *)
(*   closeErr      what the best-effort f.Close() returned (discarded)     *)
(*   raced         another call was in progress when this one opened       *)
(***************************************************************************)
\* the two callers that race on one destination path
Callers == {1, 2}

\* fileSize arguments; Truncate rejects a negative size with EINVAL
Sizes == (-1)..MaxSize

DirErrors == {"mkdir: EACCES", "mkdir: ENOTDIR"}
OpenErrors == {"open: EACCES", "open: EISDIR"}
TruncateErrors == {"truncate: ENOSPC", "truncate: EFBIG"}
CloseResults == {"nil", "close: EIO"}

NoHandle == [state |-> "none", sync |-> FALSE]
NoResult == [f |-> "none", err |-> "none"]
NoCall == [writeThrough |-> FALSE, dirErr |-> "none", closeErr |-> "none",
           raced |-> FALSE]

InProgress(q) == fpc[q] \in {"mkdir", "open", "truncate", "close"}

\* entry of CreateFileOfSizeWithWriteThroughOption(path, size, writeThrough, t, _)
Call(p, size, writeThrough) ==
    /\ fpc[p] \in {"idle", "done"}
    /\ fpc' = [fpc EXCEPT ![p] = "mkdir"]
    /\ fsize' = [fsize EXCEPT ![p] = size]
    /\ fcall' = [fcall EXCEPT ![p] = [NoCall EXCEPT !.writeThrough = writeThrough]]
    /\ fhandle' = [fhandle EXCEPT ![p] = NoHandle]
    /\ fret' = [fret EXCEPT ![p] = NoResult]
    /\ UNCHANGED <<fileExists, fileLen, fileOld, lastWriter>>
    /\ UNCHANGED <<timeVars, infoVars, credVars>>

\* CreateParentDirectoryIfNotExist returns nil
MkdirOk(p) ==
    /\ fpc[p] = "mkdir"
    /\ fcall' = [fcall EXCEPT ![p].dirErr = "nil"]
    /\ fpc' = [fpc EXCEPT ![p] = "open"]
    /\ UNCHANGED <<fileExists, fileLen, fileOld, lastWriter, fsize, fhandle, fret>>
    /\ UNCHANGED <<timeVars, infoVars, credVars>>

\* CreateParentDirectoryIfNotExist returns e: return nil, err
MkdirFails(p, e) ==
    /\ fpc[p] = "mkdir"
    /\ fcall' = [fcall EXCEPT ![p].dirErr = e]
    /\ fret' = [fret EXCEPT ![p] = [f |-> "nil", err |-> e]]
    /\ fpc' = [fpc EXCEPT ![p] = "done"]
    /\ UNCHANGED <<fileExists, fileLen, fileOld, lastWriter, fsize, fhandle>>
    /\ UNCHANGED <<timeVars, infoVars, credVars>>

\* os.OpenFile fails with e: return nil, err
OpenFails(p, e) ==
    /\ fpc[p] = "open"
    /\ fret' = [fret EXCEPT ![p] = [f |-> "nil", err |-> e]]
    /\ fpc' = [fpc EXCEPT ![p] = "done"]
    /\ UNCHANGED <<fileExists, fileLen, fileOld, lastWriter, fsize, fcall, fhandle>>
    /\ UNCHANGED <<timeVars, infoVars, credVars>>

\* faulty variant: the file is opened without O_TRUNC
OpenNoTruncMut(p) ==
    /\ fpc[p] = "open"
    /\ fileExists' = TRUE
    /\ fileLen' = fileLen
    /\ fileOld' = fileOld
    /\ lastWriter' = p
    /\ fhandle' = [fhandle EXCEPT ![p] = [state |-> "open", sync |-> fcall[p].writeThrough]]
    /\ fcall' = [fcall EXCEPT ![p].raced = \E q \in Callers \ {p} : InProgress(q)]
    /\ IF fsize[p] = 0
       THEN /\ fret' = [fret EXCEPT ![p] = [f |-> "handle", err |-> "nil"]]
            /\ fpc' = [fpc EXCEPT ![p] = "done"]
       ELSE /\ fpc' = [fpc EXCEPT ![p] = "truncate"]
            /\ UNCHANGED fret
    /\ UNCHANGED fsize
    /\ UNCHANGED <<timeVars, infoVars, credVars>>

\* os.OpenFile(path, O_RDWR|O_CREATE|O_TRUNC [|O_SYNC]) succeeds; a fileSize of 0
\* returns the handle at once
OpenOk(p) ==
    /\ fpc[p] = "open"
    /\ fileExists' = TRUE
    /\ fileLen' = 0
    /\ fileOld' = FALSE
    /\ lastWriter' = p
    /\ fhandle' = [fhandle EXCEPT ![p] = [state |-> "open", sync |-> fcall[p].writeThrough]]
    /\ fcall' = [fcall EXCEPT ![p].raced = \E q \in Callers \ {p} : InProgress(q)]
    /\ IF fsize[p] = 0
       THEN /\ fret' = [fret EXCEPT ![p] = [f |-> "handle", err |-> "nil"]]
            /\ fpc' = [fpc EXCEPT ![p] = "done"]
       ELSE /\ fpc' = [fpc EXCEPT ![p] = "truncate"]
            /\ UNCHANGED fret
    /\ UNCHANGED fsize
    /\ UNCHANGED <<timeVars, infoVars, credVars>>

\* faulty variant: the resize only ever extends the file (preallocation)
TruncateGrowOnlyMut(p) ==
    /\ fpc[p] = "truncate"
    /\ fsize[p] >= 0
    /\ fileLen' = IF fileLen > fsize[p] THEN fileLen ELSE fsize[p]
    /\ lastWriter' = p
    /\ fret' = [fret EXCEPT ![p] = [f |-> "handle", err |-> "nil"]]
    /\ fpc' = [fpc EXCEPT ![p] = "done"]
    /\ UNCHANGED <<fileExists, fileOld, fsize, fcall, fhandle>>
    /\ UNCHANGED <<timeVars, infoVars, credVars>>

\* f.Truncate(fileSize) succeeds: return f, nil
TruncateOk(p) ==
    /\ fpc[p] = "truncate"
    /\ fsize[p] >= 0
    /\ fileLen' = fsize[p]
    /\ lastWriter' = p
    /\ fret' = [fret EXCEPT ![p] = [f |-> "handle", err |-> "nil"]]
    /\ fpc' = [fpc EXCEPT ![p] = "done"]
    /\ UNCHANGED <<fileExists, fileOld, fsize, fcall, fhandle>>
    /\ UNCHANGED <<timeVars, infoVars, credVars>>

\* faulty variant: the resize error is returned without closing the handle
TruncateFailsNoCloseMut(p, e) ==
    /\ fpc[p] = "truncate"
    /\ IF fsize[p] < 0 THEN e = "truncate: EINVAL" ELSE e \in TruncateErrors
    /\ fret' = [fret EXCEPT ![p] = [f |-> "nil", err |-> e]]
    /\ fpc' = [fpc EXCEPT ![p] = "done"]
    /\ UNCHANGED <<fileExists, fileLen, fileOld, lastWriter, fsize, fcall, fhandle>>
    /\ UNCHANGED <<timeVars, infoVars, credVars>>

\* f.Truncate(fileSize) fails with e, which the function keeps to return
TruncateFails(p, e) ==
    /\ fpc[p] = "truncate"
    /\ IF fsize[p] < 0 THEN e = "truncate: EINVAL" ELSE e \in TruncateErrors
    /\ fret' = [fret EXCEPT ![p] = [f |-> "nil", err |-> e]]
    /\ fpc' = [fpc EXCEPT ![p] = "close"]
    /\ UNCHANGED <<fileExists, fileLen, fileOld, lastWriter, fsize, fcall, fhandle>>
    /\ UNCHANGED <<timeVars, infoVars, credVars>>

\* _ = f.Close() returns c, then return nil, err with the Truncate error
Close(p, c) ==
    /\ fpc[p] = "close"
    /\ fhandle' = [fhandle EXCEPT ![p].state = "closed"]
    /\ fcall' = [fcall EXCEPT ![p].closeErr = c]
    /\ fpc' = [fpc EXCEPT ![p] = "done"]
    /\ UNCHANGED <<fileExists, fileLen, fileOld, lastWriter, fsize, fret>>
    /\ UNCHANGED <<timeVars, infoVars, credVars>>

\* the steps of caller p's call
CreateStep(p) ==
    \/ \E size \in Sizes, writeThrough \in BOOLEAN : Call(p, size, writeThrough)
    \/ MkdirOk(p)
    \/ \E e \in DirErrors : MkdirFails(p, e)
    \/ \E e \in OpenErrors : OpenFails(p, e)
    \/ OpenOk(p)
    \/ TruncateOk(p)
    \/ \E e \in TruncateErrors \cup {"truncate: EINVAL"} : TruncateFails(p, e)
    \/ \E c \in CloseResults : Close(p, c)

\* no call in progress
CallersInit ==
    /\ lastWriter = 0
    /\ fpc = [p \in Callers |-> "idle"]
    /\ fsize = [p \in Callers |-> 0]
    /\ fcall = [p \in Callers |-> NoCall]
    /\ fhandle = [p \in Callers |-> NoHandle]
    /\ fret = [p \in Callers |-> NoResult]

(***************************************************************************)
(* CredCache.  cache is the struct; cpc[g] is where goroutine g stands in  *)
(* its current call: waiting at c.lock.Lock() ("lock"), inside the         *)
(* internal method ("body"), about to c.lock.Unlock() ("unlock"), about to *)
(* return ("ret"), returned, or unwound by a panic of the internal method  *)
(* ("panicked").  saved records whether the last successful SaveToken has  *)
(* not been followed by a successful RemoveCachedToken.                    *)
(***************************************************************************)
Goroutines == 1..NumGoroutines

Ops == {"HasCachedToken", "RemoveCachedToken", "SaveToken", "LoadToken"}

BackendErrors == {"backend: EIO"}

NoOutcome == [val |-> "none", err |-> "none"]

\* NewCredCache(options)
NewCredCache(keyName) == [keyName |-> keyName, lock |-> FALSE, isPermSet |-> FALSE]

hasCachedTokenInternal == [val |-> "false", err |-> "nil"]

removeCachedTokenInternal == [val |-> "none", err |-> "nil"]

saveTokenInternal == [val |-> "none", err |-> "nil"]

\* faulty variant: the token of an earlier SaveToken is returned
loadTokenInternalRealMut == [val |-> IF saved THEN "token" ELSE "nil", err |-> "nil"]

loadTokenInternal == [val |-> "nil", err |-> "nil"]

\* the internal method each exported method delegates to
Internal(op) ==
    CASE op = "HasCachedToken" -> hasCachedTokenInternal
      [] op = "RemoveCachedToken" -> removeCachedTokenInternal
      [] op = "SaveToken" -> saveTokenInternal
      [] op = "LoadToken" -> loadTokenInternal

\* the zero value an internal method returns next to an error
Failed(op, e) ==
    [val |-> Internal(op).val, err |-> e]

\* goroutine g calls c.HasCachedToken / RemoveCachedToken / SaveToken / LoadToken
CredCall(g, op) ==
    /\ cpc[g] \in {"idle", "returned"}
    /\ cpc' = [cpc EXCEPT ![g] = "lock"]
    /\ cop' = [cop EXCEPT ![g] = op]
    /\ cres' = [cres EXCEPT ![g] = NoOutcome]
    /\ cret' = [cret EXCEPT ![g] = NoOutcome]
    /\ UNCHANGED <<cache, saved>>
    /\ UNCHANGED <<timeVars, infoVars, fileVars>>

\* faulty variant: the lock is taken without waiting for it to be free
LockNoWaitMut(g) ==
    /\ cpc[g] = "lock"
    /\ cache' = [cache EXCEPT !.lock = TRUE]
    /\ cpc' = [cpc EXCEPT ![g] = "body"]
    /\ UNCHANGED <<saved, cop, cres, cret>>
    /\ UNCHANGED <<timeVars, infoVars, fileVars>>

\* c.lock.Lock() returns: the mutex was free and is now held
Lock(g) ==
    /\ cpc[g] = "lock"
    /\ ~cache.lock
    /\ cache' = [cache EXCEPT !.lock = TRUE]
    /\ cpc' = [cpc EXCEPT ![g] = "body"]
    /\ UNCHANGED <<saved, cop, cres, cret>>
    /\ UNCHANGED <<timeVars, infoVars, fileVars>>

\* the internal method returns, as written (the stub)
Backend(g) ==
    /\ cpc[g] = "body"
    /\ cres' = [cres EXCEPT ![g] = Internal(cop[g])]
    /\ saved' = CASE cop[g] = "SaveToken" -> TRUE
                  [] cop[g] = "RemoveCachedToken" -> FALSE
                  [] OTHER -> saved
    /\ cpc' = [cpc EXCEPT ![g] = "unlock"]
    /\ UNCHANGED <<cache, cop, cret>>
    /\ UNCHANGED <<timeVars, infoVars, fileVars>>

\* an internal method that returns the error e
BackendError(g, e) ==
    /\ cpc[g] = "body"
    /\ cres' = [cres EXCEPT ![g] = Failed(cop[g], e)]
    /\ cpc' = [cpc EXCEPT ![g] = "unlock"]
    /\ UNCHANGED <<cache, saved, cop, cret>>
    /\ UNCHANGED <<timeVars, infoVars, fileVars>>

\* faulty variant: a deferred Unlock releases the lock during the unwind
BackendPanicDeferredUnlockMut(g) ==
    /\ cpc[g] = "body"
    /\ cache' = [cache EXCEPT !.lock = FALSE]
    /\ cpc' = [cpc EXCEPT ![g] = "panicked"]
    /\ UNCHANGED <<saved, cop, cres, cret>>
    /\ UNCHANGED <<timeVars, infoVars, fileVars>>

\* an internal method that panics: the call unwinds past c.lock.Unlock()
BackendPanic(g) ==
    /\ cpc[g] = "body"
    /\ cpc' = [cpc EXCEPT ![g] = "panicked"]
    /\ UNCHANGED <<cache, saved, cop, cres, cret>>
    /\ UNCHANGED <<timeVars, infoVars, fileVars>>

\* faulty variant: the lock is released only when the backend succeeded
UnlockOnSuccessMut(g) ==
    /\ cpc[g] = "unlock"
    /\ cache' = IF cres[g].err = "nil" THEN [cache EXCEPT !.lock = FALSE] ELSE cache
    /\ cpc' = [cpc EXCEPT ![g] = "ret"]
    /\ UNCHANGED <<saved, cop, cres, cret>>
    /\ UNCHANGED <<timeVars, infoVars, fileVars>>

\* c.lock.Unlock()
Unlock(g) ==
    /\ cpc[g] = "unlock"
    /\ cache' = [cache EXCEPT !.lock = FALSE]
    /\ cpc' = [cpc EXCEPT ![g] = "ret"]
    /\ UNCHANGED <<saved, cop, cres, cret>>
    /\ UNCHANGED <<timeVars, infoVars, fileVars>>

\* return has, err / return err / return token, err
Return(g) ==
    /\ cpc[g] = "ret"
    /\ cret' = [cret EXCEPT ![g] = cres[g]]
    /\ cpc' = [cpc EXCEPT ![g] = "returned"]
    /\ UNCHANGED <<cache, saved, cop, cres>>
    /\ UNCHANGED <<timeVars, infoVars, fileVars>>

CredInit ==
    /\ cache = NewCredCache("user1")
    /\ saved = FALSE
    /\ cpc = [g \in Goroutines |-> "idle"]
    /\ cop = [g \in Goroutines |-> "none"]
    /\ cres = [g \in Goroutines |-> NoOutcome]
    /\ cret = [g \in Goroutines |-> NoOutcome]

(***************************************************************************)
(* Specifications.                                                         *)
(***************************************************************************)
\* the destination path does not exist
FileAbsent ==
    /\ fileExists = FALSE
    /\ fileLen = 0
    /\ fileOld = FALSE

\* the destination may or may not exist before the first call, with any length
FileAny ==
    /\ fileExists \in BOOLEAN
    /\ fileLen \in (IF fileExists THEN 0..MaxSize ELSE {0})
    /\ fileOld = fileExists

Init == TimeInit /\ InfoInit /\ FileAbsent /\ CallersInit /\ CredInit

InitFile == TimeInit /\ InfoInit /\ FileAny /\ CallersInit /\ CredInit

\* the timestamp conversions on every input of the bounded sets
NextTime ==
    \/ \E nsec \in NsecInputs : CallNsecToFiletime(nsec)
    \/ CallNanosecondsOfResult
    \/ \E ft \in FiletimeInputs : CallNanoseconds(ft)

SpecTime == Init /\ [][NextTime]_vars

\* GetFileInformation on every stat outcome of the bounded sets
NextInfo ==
    \/ \E s \in StatResults : GetFileInformation(s)
    \/ GetFileInformationStatFails

SpecInfo == Init /\ [][NextInfo]_vars

\* one caller at a time creating the file, call after call
NextCreate == CreateStep(1)

SpecCreate == InitFile /\ [][NextCreate]_vars

\* all callers creating the same destination path concurrently
NextRace == \E p \in Callers : CreateStep(p)

SpecRace == InitFile /\ [][NextRace]_vars

\* the wrappers around the backend as written
CredStep(g) ==
    \/ \E op \in Ops : CredCall(g, op)
    \/ Lock(g)
    \/ Backend(g)
    \/ Unlock(g)
    \/ Return(g)

NextCred == \E g \in Goroutines : CredStep(g)

SpecCred == Init /\ [][NextCred]_vars

\* the wrappers around a backend that may also return an error
NextCredErr ==
    \E g \in Goroutines :
        \/ CredStep(g)
        \/ \E e \in BackendErrors : BackendError(g, e)

\* sync.Mutex hands the lock to a goroutine that keeps waiting for it
\* (starvation mode), and the scheduler runs every runnable goroutine
CredFairness ==
    \A g \in Goroutines :
        /\ SF_vars(Lock(g))
        /\ WF_vars(Backend(g) \/ \E e \in BackendErrors : BackendError(g, e))
        /\ WF_vars(Unlock(g))
        /\ WF_vars(Return(g))

SpecCredLive == Init /\ [][NextCredErr]_vars /\ CredFairness

\* the wrappers around a backend that may also return an error or panic
NextCredFault ==
    \E g \in Goroutines :
        \/ CredStep(g)
        \/ \E e \in BackendErrors : BackendError(g, e)
        \/ BackendPanic(g)

SpecCredFault == Init /\ [][NextCredFault]_vars

(***************************************************************************)
(* Properties.  Exact (unwrapped) values are computed over five limbs,     *)
(* which hold every intermediate value of the conversions.                 *)
(***************************************************************************)
SignExt(a) == a \o <<IF IsNegW(a) THEN LimbBase - 1 ELSE 0>>

ZeroExt(a) == a \o <<0>>

\* the small non-negative d as a five-limb value
Wide(d) == <<d, 0, 0, 0, 0>>

\* n mod 100 of a signed 64-bit n, by the residues of the limb weights:
\* 2^16 = 36, 2^32 = 96, 2^48 = 56, 2^64 = 16 (mod 100)
Mod100(n) ==
    (n[1] + 36 * n[2] + 96 * n[3] + 56 * n[4] + (IF IsNegW(n) THEN 84 ELSE 0)) % 100

\* r is the greatest multiple of 100 that does not exceed n
IsFloor100(n, r) ==
    /\ Mod100(r) = 0
    /\ \E d \in 0..99 : SubW(SignExt(n), SignExt(r)) = Wide(d)

\* r is n with its sub-100 part dropped, toward zero
IsTowardZero100(n, r) ==
    /\ Mod100(r) = 0
    /\ \E d \in 0..99 :
          IF IsNegW(n)
          THEN SubW(SignExt(r), SignExt(n)) = Wide(d)
          ELSE SubW(SignExt(n), SignExt(r)) = Wide(d)

\* C1: at most one goroutine is inside an internal backend body of the
\* instance at any time, whatever mix of the four operations is called.
C1_MutualExclusion ==
    Cardinality({g \in Goroutines : cpc[g] = "body"}) <= 1

\* C1 witness: one goroutine is inside a backend body while another waits at Lock.
C1_Witness ==
    \E g, h \in Goroutines : g # h /\ cpc[g] = "body" /\ cpc[h] = "lock"

Faulted == \E g \in Goroutines : cpc[g] = "panicked"

\* C2 as claimed: once a backend call has panicked under the lock, no other
\* call ever enters its backend body or returns.
C2_NoCallReturnsAfterFault ==
    [][Faulted =>
          \A h \in Goroutines :
              /\ cpc'[h] = "body" => cpc[h] = "body"
              /\ cpc'[h] = "returned" => cpc[h] = "returned"]_vars

\* C2 amended: once a backend call has panicked under the lock, the lock stays
\* held for ever and no call that had not released the lock before the fault
\* gets past Lock: it neither enters its backend body, nor unlocks, nor
\* returns.  Only a call that had already unlocked still returns.
C2_LockNeverReleasedAfterFault ==
    [][Faulted =>
          /\ cache.lock /\ cache'.lock
          /\ \A h \in Goroutines :
                /\ cpc[h] \in {"idle", "lock", "returned"}
                      => cpc'[h] \in {"idle", "lock", "returned"}
                /\ cpc'[h] = "returned" => cpc[h] \in {"ret", "returned"}
                /\ cpc[h] = "panicked" => cpc'[h] = "panicked"
                /\ cpc'[h] \notin {"body", "unlock"}]_vars

\* C2 witness: a backend call has panicked, the lock is held and another
\* goroutine is blocked at Lock.
C2_Witness ==
    /\ Faulted
    /\ cache.lock
    /\ \E h \in Goroutines : cpc[h] = "lock"

\* C3 as claimed: NsecToFiletime then Nanoseconds returns the greatest multiple
\* of 100 not exceeding n (n itself when n is a multiple of 100), for every n.
C3_RoundTripFloors ==
    tpc = "roundtrip" => IsFloor100(tIn, tOut)

\* C3 amended: NsecToFiletime then Nanoseconds returns n when n is a multiple
\* of 100 and otherwise the nearest 100ns boundary toward zero: the greatest
\* multiple of 100 not exceeding n for n >= 0, the least multiple of 100 not
\* below n for n < 0.
C3_RoundTripTruncatesTowardZero ==
    tpc = "roundtrip" =>
        /\ IsTowardZero100(tIn, tOut)
        /\ Mod100(tIn) = 0 => tOut = tIn

\* C3 witness: -101 ns comes back as -100 ns.
C3_Witness ==
    /\ tpc = "roundtrip"
    /\ tIn = Int64(-101)
    /\ tOut = Int64(-100)

\* the exact value of (ticks - 116444736000000000) * 100
ExactNanoseconds(ft) ==
    MulW(SubW(ZeroExt(FiletimeTicks(ft)),
              ZeroExt(TICKS_FROM_WINDOWS_EPOCH_TO_UNIX_EPOCH)), 100)

\* the unsigned tick value of ft lies below t
TicksBelow(ft, t) == IsNegW(SubW(ZeroExt(FiletimeTicks(ft)), ZeroExt(t)))

\* C8 as claimed: every Filetime before the Unix epoch, Filetime{0,0}
\* included, yields a negative result equal to (ticks - offset) * 100.
C8_BeforeEpochNegative ==
    (tpc \in {"nanos", "roundtrip"}
        /\ TicksBelow(tFt, TICKS_FROM_WINDOWS_EPOCH_TO_UNIX_EPOCH))
    => /\ IsNegW(tOut)
       /\ SignExt(tOut) = ExactNanoseconds(tFt)

\* C8 amended: a Filetime before the Unix epoch whose tick value is at least
\* offset - 92233720368547758 yields a negative result equal to
\* (ticks - offset) * 100; below that the product does not fit an int64.
C8_BeforeEpochNegativeInRange ==
    (tpc \in {"nanos", "roundtrip"}
        /\ TicksBelow(tFt, TICKS_FROM_WINDOWS_EPOCH_TO_UNIX_EPOCH)
        /\ ~TicksBelow(tFt, FirstRepresentableTick))
    => /\ IsNegW(tOut)
       /\ SignExt(tOut) = ExactNanoseconds(tFt)

\* C8 witness: the earliest representable tick yields -9223372036854775800.
C8_Witness ==
    /\ tpc = "nanos"
    /\ tFt = FiletimeOfTicks(FirstRepresentableTick)
    /\ tOut = <<8, 0, 0, 32768>>

\* what each operation returns when nothing is cached
StubResult(op) ==
    CASE op = "HasCachedToken" -> [val |-> "false", err |-> "nil"]
      [] op = "LoadToken" -> [val |-> "nil", err |-> "nil"]
      [] OTHER -> [val |-> "none", err |-> "nil"]

Succeeded(p) == fpc[p] = "done" /\ fret[p] = [f |-> "handle", err |-> "nil"]

\* C5: when a call that does not overlap another returns a handle without
\* error, the file exists with length exactly fileSize and the handle is open.
C5_SizedOnSuccess ==
    Succeeded(1) =>
        /\ fileExists
        /\ fileLen = fsize[1]
        /\ fhandle[1] = [state |-> "open", sync |-> fcall[1].writeThrough]

\* C5 witness: a write-through call for size 1 has succeeded, the file is 1 long.
C5_Witness ==
    /\ Succeeded(1)
    /\ fcall[1].writeThrough
    /\ fsize[1] = 1
    /\ fileLen = 1

\* C6: on every failing path the handle returned is nil and no handle stays
\* open; a directory-creation failure returns the collaborator's error and
\* neither opens, creates nor truncates the file; a resize failure closes the
\* handle before returning the resize error, whatever Close returned.
C6_FailingPaths ==
    /\ []((fpc[1] = "done" /\ fret[1].err # "nil")
            => (fret[1].f = "nil" /\ fhandle[1].state # "open"))
    /\ [](fcall[1].dirErr \in DirErrors
            => /\ fpc[1] = "done"
               /\ fret[1] = [f |-> "nil", err |-> fcall[1].dirErr]
               /\ fhandle[1].state = "none")
    /\ []((fpc[1] = "done" /\ fret[1].err \in TruncateErrors \cup {"truncate: EINVAL"})
            => fhandle[1].state = "closed")
    /\ []((fpc[1] = "done" /\ fhandle[1].state = "closed")
            => /\ fret[1].f = "nil"
               /\ fret[1].err \in TruncateErrors \cup {"truncate: EINVAL"})
    /\ [][(fpc[1] = "mkdir" /\ fpc'[1] = "done")
            => UNCHANGED <<fileExists, fileLen, fileOld, lastWriter>>]_vars

\* C6 witness: the resize failed, the close failed too, and the call returned
\* nil with the resize error and the handle closed.
C6_Witness ==
    /\ fpc[1] = "done"
    /\ fret[1] = [f |-> "nil", err |-> "truncate: ENOSPC"]
    /\ fcall[1].closeErr = "close: EIO"
    /\ fhandle[1].state = "closed"

\* C7: a successful GetFileInformation sets FileAttributes to exactly 0x10
\* when the mode's file type is directory and to exactly 0x80 otherwise.
C7_AttributesExclusive ==
    infoErr = "nil" =>
        /\ info.FileAttributes \in {16, 128}
        /\ info.FileAttributes = 16 <=> (st.Mode \div 4096) % 16 = 4

\* C7 witness: a directory with mode 0755 is reported as 0x10.
C7_Witness ==
    /\ infoErr = "nil"
    /\ st.Mode = 16384 + 493
    /\ info.FileAttributes = 16

\* C9: when both racing calls have returned successfully, the file's length
\* is the size asked by the call whose last file-modifying step ran last.
C9_LastWriterWins ==
    (\A p \in Callers : Succeeded(p)) =>
        /\ lastWriter \in Callers
        /\ fileLen = fsize[lastWriter]
        /\ \E p \in Callers : fileLen = fsize[p]

\* C9 witness: both calls overlapped, both succeeded, and the file has the
\* size of caller 1, whose resize ran last.
C9_Witness ==
    /\ \A p \in Callers : Succeeded(p) /\ fcall[p].raced
    /\ fsize[1] = 1
    /\ fsize[2] = 2
    /\ lastWriter = 1
    /\ fileLen = 1

\* C10: when no backend call panics, every call that waits for the lock
\* eventually returns, what it returns is the backend's result, and the lock
\* is free whenever no call is in progress, also after a backend error.
C10_EveryCallReturns ==
    /\ [](\A g \in Goroutines : cpc[g] = "returned" => cret[g] = cres[g])
    /\ []((\A g \in Goroutines : cpc[g] \in {"idle", "returned"}) => ~cache.lock)
    /\ \A g \in Goroutines : (cpc[g] = "lock") ~> (cpc[g] = "returned")

\* C10 witness: a call has returned the backend's error and another goroutine
\* has acquired the lock since.
C10_Witness ==
    \E g, h \in Goroutines :
        /\ cpc[g] = "returned"
        /\ cret[g].err \in BackendErrors
        /\ cpc[h] = "body"

====
